---- MODULE Spec2Model ----
(***************************************************************************)
(* Model of the DynamoDB value converter: typeOf (types.ts), DynamoDBSet   *)
(* (set.ts) and Converter.input / marshall / output / unmarshall with     *)
(* their private helpers (converter.ts).                                   *)
(*                                                                         *)
(* JavaScript values are records tagged by the field t.  A JavaScript      *)
(* string is a sequence of one-character strings, so that Number(s),       *)
(* n.toString() and `${v}` are computed and not assumed.  A JavaScript     *)
(* number is a decimal with FracDigits fraction digits, held as the        *)
(* integer m = value * 10^FracDigits, or NaN.  An object is its class      *)
(* (the name of its constructor, "" for a null prototype) and the ordered  *)
(* list of its own enumerable properties.                                  *)
(***************************************************************************)
EXTENDS Integers, Sequences, FiniteSets, TLC

VARIABLES orig, opts, calls, cur, status, err

vars == <<orig, opts, calls, cur, status, err>>

\* ---------------------------------------------------------------- bounds
MaxCalls == 2
MaxDepth == 2
FracDigits == 2

\* ------------------------------------------------------ JavaScript values
Undefined == [t |-> "undefined"]
Null == [t |-> "null"]
Func == [t |-> "Function", arity |-> 0]
Bool(b) == [t |-> "Boolean", b |-> b]
Num(m) == [t |-> "Number", nan |-> FALSE, m |-> m]
NaN == [t |-> "Number", nan |-> TRUE, m |-> 0]
Str(s) == [t |-> "String", s |-> s]
Bin(kind, elems) == [t |-> "Binary", kind |-> kind, elems |-> elems]
DateOf(ms) == [t |-> "Date", ms |-> ms]
Arr(items) == [t |-> "Array", items |-> items]
Obj(cls, props) == [t |-> "Object", cls |-> cls, props |-> props]
Prop(key, val) == [key |-> key, val |-> val]

RECURSIVE Pow10(_)
Pow10(k) == IF k = 0 THEN 1 ELSE 10 * Pow10(k - 1)

Scale == Pow10(FracDigits)

\* an integer as a JavaScript number
Int2Num(i) == Num(i * Scale)

\* the TLA+ string spelled by a sequence of characters
RECURSIVE Text(_)
Text(s) == IF s = <<>> THEN "" ELSE Head(s) \o Text(Tail(s))

HasOwn(obj, key) ==
    /\ obj.t = "Object"
    /\ \E i \in 1..Len(obj.props) : obj.props[i].key = key

\* obj[key] for an own property
OwnProp(obj, key) ==
    LET i == CHOOSE i \in 1..Len(obj.props) : obj.props[i].key = key
    IN obj.props[i].val

Digits == <<"0", "1", "2", "3", "4", "5", "6", "7", "8", "9">>

IsDigit(c) == \E d \in 1..10 : Digits[d] = c

DigitVal(c) == (CHOOSE d \in 1..10 : Digits[d] = c) - 1

\* decimal digits of a natural number, no leading zeros
RECURSIVE NatToStr(_)
NatToStr(n) ==
    IF n < 10 THEN <<Digits[n + 1]>>
    ELSE NatToStr(n \div 10) \o <<Digits[(n % 10) + 1]>>

\* the k fraction digits of f, trailing zeros dropped
RECURSIVE FracToStr(_, _)
FracToStr(f, k) ==
    IF f = 0 THEN <<>>
    ELSE <<Digits[(f \div Pow10(k - 1)) + 1]>> \o FracToStr(f % Pow10(k - 1), k - 1)

\* Number.prototype.toString
NumToStr(v) ==
    IF v.nan THEN <<"N", "a", "N">>
    ELSE LET a == IF v.m < 0 THEN -v.m ELSE v.m
             sign == IF v.m < 0 THEN <<"-">> ELSE <<>>
             frac == FracToStr(a % Scale, FracDigits)
         IN sign \o NatToStr(a \div Scale)
                 \o (IF frac = <<>> THEN <<>> ELSE <<".">> \o frac)

RECURSIVE DigitsToNat(_, _)
DigitsToNat(s, acc) ==
    IF s = <<>> THEN acc ELSE DigitsToNat(Tail(s), acc * 10 + DigitVal(Head(s)))

AllDigits(s) == \A i \in 1..Len(s) : IsDigit(s[i])

\* the fraction digits s as a multiple of 10^-FracDigits
FracToNat(s) ==
    LET cut == IF Len(s) > FracDigits THEN SubSeq(s, 1, FracDigits) ELSE s
    IN DigitsToNat(cut, 0) * Pow10(FracDigits - Len(cut))

\* Number(s) for a string: "" is 0, an optional sign, digits and an
\* optional fraction are a decimal literal, anything else is NaN
StrToNum(s) ==
    LET signed == s # <<>> /\ Head(s) \in {"-", "+"}
        body == IF signed THEN Tail(s) ELSE s
        dots == {i \in 1..Len(body) : body[i] = "."}
        dot == IF dots = {} THEN Len(body) + 1 ELSE CHOOSE i \in dots : TRUE
        ip == SubSeq(body, 1, dot - 1)
        fp == SubSeq(body, dot + 1, Len(body))
        a == DigitsToNat(ip, 0) * Scale + FracToNat(fp)
    IN IF s = <<>> THEN Num(0)
       ELSE IF /\ Cardinality(dots) <= 1
               /\ AllDigits(ip)
               /\ AllDigits(fp)
               /\ Len(ip) + Len(fp) > 0
            THEN Num(IF signed /\ Head(s) = "-" THEN -a ELSE a)
            ELSE NaN

\* ----------------------------------------------------------- coercions
\* ToBoolean: what `!v` and `a || b` test
Truthy(v) ==
    CASE v.t \in {"undefined", "null"} -> FALSE
      [] v.t = "Boolean" -> v.b
      [] v.t = "Number" -> ~v.nan /\ v.m # 0
      [] v.t = "String" -> v.s # <<>>
      [] OTHER -> TRUE

\* the text of a primitive inside a joined array: null and undefined are ""
RECURSIVE ToStr(_)
RECURSIVE Join(_)
Join(items) ==
    IF items = <<>> THEN <<>>
    ELSE (IF Head(items).t \in {"undefined", "null"} THEN <<>> ELSE ToStr(Head(items)))
         \o (IF Len(items) > 1 THEN <<",">> ELSE <<>>)
         \o Join(Tail(items))

\* ToString, as done by `${v}` and by v + ''.  A NumberValue answers with
\* its toString method; the text of a date, a function or a binary value
\* depends on the host and is kept as an opaque one-word text.
ToStr(v) ==
    CASE v.t = "String" -> v.s
      [] v.t = "Number" -> NumToStr(v)
      [] v.t = "Boolean" -> IF v.b THEN <<"t", "r", "u", "e">>
                            ELSE <<"f", "a", "l", "s", "e">>
      [] v.t = "null" -> <<"n", "u", "l", "l">>
      [] v.t = "undefined" -> <<"u", "n", "d", "e", "f", "i", "n", "e", "d">>
      [] v.t = "Array" -> Join(v.items)
      [] v.t = "Object" ->
            IF v.cls = "NumberValue" /\ HasOwn(v, "value")
            THEN ToStr(OwnProp(v, "value"))
            ELSE <<"[object Object]">>
      [] OTHER -> <<"[" \o v.t \o "]">>

\* -------------------------------------------------------------- types.ts
\* the names isBinary looks for
BinaryTypes ==
    {"Buffer", "File", "Blob", "ArrayBuffer", "DataView", "Int8Array",
     "Uint8Array", "Uint8ClampedArray", "Int16Array", "Uint16Array",
     "Int32Array", "Uint32Array", "Float32Array", "Float64Array"}

\* the binary classes that have a length property (the typed arrays and
\* Buffer); ArrayBuffer and DataView have byteLength, Blob and File size
LengthTypes == BinaryTypes \ {"File", "Blob", "ArrayBuffer", "DataView"}

\* data.constructor, as the name of the constructor; "" when there is none
Constructor(data) ==
    CASE data.t \in {"undefined", "null"} -> ""
      [] data.t = "Binary" -> data.kind
      [] data.t = "Object" -> data.cls
      [] OTHER -> data.t

\* typeName(type): the name of a constructor
typeName(type) == type

\* isType(obj, type): Object.prototype.toString.call(obj) is [object type];
\* a Buffer is tagged Uint8Array
isType(obj, type) ==
    /\ obj.t = "Binary"
    /\ type = (IF obj.kind = "Buffer" THEN "Uint8Array" ELSE obj.kind)

isBinary(data) ==
    \/ data.t = "Binary" /\ data.kind = "Buffer"
    \/ \E type \in BinaryTypes :
          /\ data.t # "undefined"
          /\ Constructor(data) # ""
          /\ (isType(data, type) \/ typeName(Constructor(data)) = type)

\* data.wrapperName
WrapperName(data) ==
    IF HasOwn(data, "wrapperName") THEN OwnProp(data, "wrapperName") ELSE Undefined

\* typeOf with the wrapperName test moved ahead of the binary test
typeOfWrapperFirst(data) ==
    IF data.t = "Date" THEN "Date"
    ELSE IF data.t = "null" THEN "null"
    ELSE IF data.t # "undefined" /\ Constructor(data) # ""
                                /\ Truthy(WrapperName(data))
         THEN Text(ToStr(WrapperName(data)))
    ELSE IF data.t # "undefined" /\ isBinary(data) THEN "Binary"
    ELSE IF data.t # "undefined" /\ Constructor(data) # ""
         THEN typeName(Constructor(data))
    ELSE IF data.t = "Object" THEN "Object"
    ELSE "undefined"

typeOf(data) ==
    IF data.t = "Date" THEN "Date"
    ELSE IF data.t = "null" THEN "null"
    ELSE IF data.t # "undefined" /\ isBinary(data) THEN "Binary"
    ELSE IF data.t # "undefined" /\ Constructor(data) # ""
         THEN IF Truthy(WrapperName(data))
              THEN Text(ToStr(WrapperName(data)))
              ELSE typeName(Constructor(data))
    ELSE IF data.t = "Object" THEN "Object"
    ELSE "undefined"

\* data.length
LengthOf(data) ==
    CASE data.t = "String" -> Int2Num(Len(data.s))
      [] data.t = "Array" -> Int2Num(Len(data.items))
      [] data.t = "Binary" ->
            IF data.kind \in LengthTypes THEN Int2Num(Len(data.elems)) ELSE Undefined
      [] data.t = "Object" ->
            IF HasOwn(data, "length") THEN OwnProp(data, "length") ELSE Undefined
      [] data.t = "Function" -> Int2Num(data.arity)
      [] OTHER -> Undefined

\* ---------------------------------------------------------- converter.ts
\* the outcome of a call: a returned value, or a thrown error
Ok(val) == [ok |-> TRUE, val |-> val, err |-> ""]
Throw(msg) == [ok |-> FALSE, val |-> Undefined, err |-> msg]

\* an object literal with one property, { key: payload }
Attr(key, payload) == Obj("Object", <<Prop(key, payload)>>)

\* options || {}
NoOptions == [convertEmptyValues |-> FALSE, wrapNumbers |-> FALSE, dateFormat |-> "iso"]

UnconvertibleMsg(type) ==
    "Unable to convert property to a Dynamo DB attribute with type " \o type

SetTypeMsg == "Sets can contain string, number, or binary values"

\* a property read or a method call on something that has none
TypeError == "TypeError"

\* data[key]: an own property, or what the class of the object provides
\* (Set.prototype.values is a function of no parameters)
Get(data, key) ==
    IF HasOwn(data, key) THEN OwnProp(data, key)
    ELSE IF data.t = "Object" /\ data.cls = "Set" /\ key = "values" THEN Func
    ELSE Undefined

\* the own enumerable properties a for-in loop visits, in order
RECURSIVE IndexProps(_, _)
IndexProps(items, i) ==
    IF i > Len(items) THEN <<>>
    ELSE <<Prop(Text(NatToStr(i - 1)), items[i])>> \o IndexProps(items, i + 1)

EnumProps(data) ==
    CASE data.t = "Object" -> data.props
      [] data.t = "Array" -> IndexProps(data.items, 1)
      [] data.t = "String" -> IndexProps([i \in 1..Len(data.s) |-> Str(<<data.s[i]>>)], 1)
      [] OTHER -> <<>>

\* data[0] .. data[data.length - 1]
Items(data) ==
    CASE data.t = "Array" -> data.items
      [] data.t = "String" -> [i \in 1..Len(data.s) |-> Str(<<data.s[i]>>)]
      [] data.t = "Binary" /\ data.kind \in LengthTypes ->
            [i \in 1..Len(data.elems) |-> Int2Num(data.elems[i])]
      [] OTHER -> <<>>

\* data.toString(): NumberValue.toString returns the stored value as it is
ToStringCall(data) ==
    IF data.t = "Object" /\ data.cls = "NumberValue"
    THEN Get(data, "value")
    ELSE Str(ToStr(data))

Pad(n, width) ==
    LET d == NatToStr(n)
    IN [i \in 1..(width - Len(d)) |-> "0"] \o d

\* Date.prototype.toISOString, for an instant of January 1970
toISOString(data) ==
    LET ms == data.ms
        day == ms \div 86400000
        rest == ms % 86400000
    IN <<"1", "9", "7", "0", "-", "0", "1", "-">> \o Pad(day + 1, 2) \o <<"T">>
       \o Pad(rest \div 3600000, 2) \o <<":">>
       \o Pad((rest % 3600000) \div 60000, 2) \o <<":">>
       \o Pad((rest % 60000) \div 1000, 2) \o <<".">>
       \o Pad(rest % 1000, 3) \o <<"Z">>

\* getUnixTime of date-fns: whole seconds since the epoch
getUnixTime(data) == Int2Num(data.ms \div 1000)

formatDate(data, options) ==
    IF options.dateFormat = "unix"
    THEN Attr("S", Str(ToStr(getUnixTime(data))))
    ELSE Attr("S", Str(toISOString(data)))

\* set.values[i].length === 0
IsEmptyElement(v) == LengthOf(v) = Int2Num(0)

\* the loop of filterEmptySetValues: skips the elements of length 0
RECURSIVE NonEmptyValues(_)
NonEmptyValues(items) ==
    IF items = <<>> THEN <<>>
    ELSE (IF IsEmptyElement(Head(items)) THEN <<>> ELSE <<Head(items)>>)
         \o NonEmptyValues(Tail(items))

\* a variant of potentiallyEmptyTypes with Number: true
potentiallyEmptyTypesAll(type) == Text(ToStr(type)) \in {"String", "Binary", "Number"}

\* potentiallyEmptyTypes[set.type]
potentiallyEmptyTypes(type) == Text(ToStr(type)) \in {"String", "Binary"}

filterEmptySetValues(set) ==
    LET values == Get(set, "values")
    IN IF potentiallyEmptyTypes(Get(set, "type"))
       THEN IF values.t \in {"undefined", "null"}
               \/ \E i \in 1..Len(Items(values)) :
                     Items(values)[i].t \in {"undefined", "null"}
            THEN Throw(TypeError)
            ELSE Ok(Arr(NonEmptyValues(Items(values))))
       ELSE Ok(values)

RECURSIVE input(_, _)

\* the switch of formatSet over data.type
SetMap(type, values) ==
    IF type = Str(<<"S", "t", "r", "i", "n", "g">>)
    THEN Ok(Attr("SS", values))
    ELSE IF type = Str(<<"B", "i", "n", "a", "r", "y">>)
    THEN Ok(Attr("BS", values))
    ELSE IF type = Str(<<"N", "u", "m", "b", "e", "r">>)
    THEN IF values.t # "Array"
            \/ \E i \in 1..Len(values.items) :
                  values.items[i].t \in {"undefined", "null"}
         THEN Throw(TypeError)
         ELSE Ok(Attr("NS", Arr([i \in 1..Len(values.items) |->
                                     ToStringCall(values.items[i])])))
    ELSE Ok(Obj("Object", <<>>))

formatSet(data, options) ==
    IF options.convertEmptyValues
    THEN LET filtered == filterEmptySetValues(data)
         IN IF ~filtered.ok THEN filtered
            ELSE IF filtered.val.t \in {"undefined", "null"} THEN Throw(TypeError)
            ELSE IF LengthOf(filtered.val) = Int2Num(0) THEN input(Null, NoOptions)
            ELSE SetMap(Get(data, "type"), filtered.val)
    ELSE SetMap(Get(data, "type"), Get(data, "values"))

\* data.length === 0 && options.convertEmptyValues
EmptyToNull(data, options) ==
    LengthOf(data) = Int2Num(0) /\ options.convertEmptyValues

\* a variant of Refused that lets functions through to formatMap
RefusedUndefinedOnly(type) == type = "undefined"

\* the types input refuses: neither dispatched nor formatted as a map
Refused(type) == type \in {"undefined", "Function"}

RECURSIVE formatListFrom(_, _, _)
formatListFrom(items, options, list) ==
    IF items = <<>> THEN Ok(Attr("L", Arr(list)))
    ELSE LET r == input(Head(items), options)
         IN IF r.ok THEN formatListFrom(Tail(items), options, Append(list, r.val))
            ELSE r

formatList(data, options) == formatListFrom(Items(data), options, <<>>)

RECURSIVE formatMapFrom(_, _, _)
formatMapFrom(props, options, map) ==
    IF props = <<>> THEN Ok(Attr("M", Obj("Object", map)))
    ELSE LET formatted == input(Head(props).val, options)
         IN IF ~formatted.ok THEN formatted
            ELSE formatMapFrom(Tail(props), options,
                     IF formatted.val # Undefined
                     THEN Append(map, Prop(Head(props).key, formatted.val))
                     ELSE map)

formatMap(data, options) == formatMapFrom(EnumProps(data), options, <<>>)

\* Converter.input
input(data, options) ==
    LET type == typeOf(data)
    IN IF type = "Date" THEN Ok(formatDate(data, options))
       ELSE IF type = "Object" THEN formatMap(data, options)
       ELSE IF type = "Array" THEN formatList(data, options)
       ELSE IF type = "Set" THEN formatSet(data, options)
       ELSE IF type = "String"
            THEN IF EmptyToNull(data, options) THEN input(Null, NoOptions)
                 ELSE Ok(Attr("S", data))
       ELSE IF type \in {"Number", "NumberValue"} THEN Ok(Attr("N", ToStringCall(data)))
       ELSE IF type = "Binary"
            THEN IF EmptyToNull(data, options) THEN input(Null, NoOptions)
                 ELSE Ok(Attr("B", data))
       ELSE IF type = "Boolean" THEN Ok(Attr("BOOL", data))
       ELSE IF type = "null" THEN Ok(Attr("NULL", Bool(TRUE)))
       ELSE IF ~Refused(type) THEN formatMap(data, options)
       ELSE Throw(UnconvertibleMsg(type))

\* Converter.marshall: this.input(data, options).M
marshall(data, options) ==
    LET r == input(data, options)
    IN IF r.ok THEN Ok(Get(r.val, "M")) ELSE r

\* ---------------------------------------------------------------- set.ts
\* memberTypeToSetType[name]
memberTypeToSetType(name) ==
    CASE name = "String" -> Str(<<"S", "t", "r", "i", "n", "g">>)
      [] name \in {"Number", "NumberValue"} -> Str(<<"N", "u", "m", "b", "e", "r">>)
      [] name = "Binary" -> Str(<<"B", "i", "n", "a", "r", "y">>)
      [] OTHER -> Undefined

\* DynamoDBSet.initialize: this.values.concat(...list) builds a new array
\* and leaves this.values as it was
initialize(values, list) == values

\* this.values[0]
FirstOf(values) == IF values = <<>> THEN Undefined ELSE Head(values)

\* DynamoDBSet.detectType: the type it assigns to this.type
detectType(values) == memberTypeToSetType(typeOf(FirstOf(values)))

\* new DynamoDBSet(list): the fields start as values = [], wrapperName =
\* 'Set'; initialize and detectType follow
NewDynamoDBSet(list) ==
    LET values == initialize(<<>>, list)
        type == detectType(values)
    IN IF ~Truthy(type) THEN Throw(SetTypeMsg)
       ELSE Ok(Obj("DynamoDBSet",
                   <<Prop("values", Arr(values)),
                     Prop("wrapperName", Str(<<"S", "e", "t">>)),
                     Prop("type", type)>>))

\* ------------------------------------------------- converter.ts, output
\* a variant of NumberValue that stores the parsed number
NewNumberValueParsed(value) ==
    Obj("NumberValue",
        <<Prop("value", IF value.t = "String" THEN StrToNum(value.s) ELSE value)>>)

\* new NumberValue(value)
NewNumberValue(value) == Obj("NumberValue", <<Prop("value", value)>>)

\* Number(value)
ToNumber(value) ==
    CASE value.t = "Number" -> value
      [] value.t = "String" -> StrToNum(value.s)
      [] value.t = "Boolean" -> Int2Num(IF value.b THEN 1 ELSE 0)
      [] value.t = "null" -> Int2Num(0)
      [] value.t = "Object" /\ value.cls = "NumberValue" ->
            IF Get(value, "value").t = "String" THEN StrToNum(Get(value, "value").s)
            ELSE IF Get(value, "value").t = "Number" THEN Get(value, "value")
            ELSE NaN
      [] OTHER -> NaN

convertNumber(value, wrapNumbers) ==
    IF wrapNumbers THEN NewNumberValue(value) ELSE ToNumber(value)

\* the UTF-8 code of a character of the model's alphabet
Letters ==
    <<"a", "b", "c", "d", "e", "f", "g", "h", "i", "j", "k", "l", "m",
      "n", "o", "p", "q", "r", "s", "t", "u", "v", "w", "x", "y", "z">>

CharCode(c) ==
    IF IsDigit(c) THEN 48 + DigitVal(c)
    ELSE 96 + (CHOOSE i \in 1..26 : Letters[i] = c)

Encodable(s) == \A i \in 1..Len(s) : IsDigit(s[i]) \/ \E j \in 1..26 : Letters[j] = s[i]

\* Buffer.from(value): the bytes of a string, a view of an ArrayBuffer, a
\* copy of the elements of an array or typed array, each taken modulo 256
BufferFrom(value) ==
    CASE value.t = "String" /\ Encodable(value.s) ->
            Ok(Bin("Buffer", [i \in 1..Len(value.s) |-> CharCode(value.s[i])]))
      [] value.t = "Binary" /\ value.kind \in LengthTypes \cup {"ArrayBuffer"} ->
            Ok(Bin("Buffer", [i \in 1..Len(value.elems) |-> value.elems[i] % 256]))
      [] value.t = "Array" /\ \A i \in 1..Len(value.items) :
                                  value.items[i].t = "Number" /\ ~value.items[i].nan ->
            Ok(Bin("Buffer", [i \in 1..Len(value.items) |->
                                 (value.items[i].m \div Scale) % 256]))
      [] OTHER -> Throw(TypeError)

\* value instanceof Buffer || value instanceof Uint8Array
IsUint8Array(value) == value.t = "Binary" /\ value.kind \in {"Buffer", "Uint8Array"}

\* a variant of toBuffer that copies every payload into a new Buffer
toBufferCopy(value) ==
    IF ~Truthy(value) THEN Ok(Bin("Buffer", <<>>))
    ELSE BufferFrom(value)

toBuffer(value) ==
    IF ~Truthy(value) THEN Ok(Bin("Buffer", <<>>))
    ELSE IF IsUint8Array(value) THEN Ok(value)
    ELSE BufferFrom(value)

Capitals ==
    <<"A", "B", "C", "D", "E", "F", "G", "H", "I", "J", "K", "L", "M",
      "N", "O", "P", "Q", "R", "S", "T", "U", "V", "W", "X", "Y", "Z">>

\* String.prototype.toLowerCase
toLowerCase(s) ==
    [i \in 1..Len(s) |->
        IF \E j \in 1..26 : Capitals[j] = s[i]
        THEN Letters[CHOOSE j \in 1..26 : Capitals[j] = s[i]]
        ELSE s[i]]

\* a variant of the BOOL branch that compares without regard to case
BoolOutputAnyCase(v) ==
    \/ toLowerCase(ToStr(v)) = <<"t", "r", "u", "e">>
    \/ v = Bool(TRUE)

\* the BOOL branch of output
BoolOutput(v) ==
    LET boolString == ToStr(v)
    IN \/ boolString = <<"t", "r", "u", "e">>
       \/ boolString = <<"T", "R", "U", "E">>
       \/ v = Bool(TRUE)

\* the keys output dispatches on
RecognizedKeys == {"M", "L", "SS", "NS", "BS", "S", "N", "B", "BOOL", "NULL"}

\* data[key] ?? fallback
Coalesce(v, fallback) == IF v.t \in {"undefined", "null"} THEN fallback ELSE v

\* the results of a list of calls, or the first error thrown among them
RECURSIVE Collect(_, _)
Collect(results, list) ==
    IF results = <<>> THEN Ok(Arr(list))
    ELSE IF ~Head(results).ok THEN Head(results)
    ELSE Collect(Tail(results), Append(list, Head(results).val))

RECURSIVE output(_, _)

RECURSIVE outputMapFrom(_, _, _)
outputMapFrom(props, options, map) ==
    IF props = <<>> THEN Ok(Obj("Object", map))
    ELSE LET r == output(Head(props).val, options)
         IN IF ~r.ok THEN r
            ELSE outputMapFrom(Tail(props), options,
                               Append(map, Prop(Head(props).key, r.val)))

\* the body of output's loop for the own key `key` holding `v`
outputKey(key, v, options) ==
    CASE key = "M" -> outputMapFrom(EnumProps(Coalesce(v, Obj("Object", <<>>))), options, <<>>)
      [] key = "L" ->
            LET listValues == Items(Coalesce(v, Arr(<<>>)))
            IN Collect([i \in 1..Len(listValues) |-> output(listValues[i], options)], <<>>)
      [] key = "SS" ->
            LET listValues == Items(Coalesce(v, Arr(<<>>)))
            IN NewDynamoDBSet([i \in 1..Len(listValues) |-> Str(ToStr(listValues[i]))])
      [] key = "NS" ->
            LET listValues == Items(Coalesce(v, Arr(<<>>)))
            IN NewDynamoDBSet([i \in 1..Len(listValues) |->
                                  convertNumber(listValues[i], options.wrapNumbers)])
      [] key = "BS" ->
            LET listValues == Items(Coalesce(v, Arr(<<>>)))
                list == Collect([i \in 1..Len(listValues) |-> toBuffer(listValues[i])], <<>>)
            IN IF list.ok THEN NewDynamoDBSet(list.val.items) ELSE list
      [] key = "S" -> Ok(Str(ToStr(v)))
      [] key = "N" -> IF ~Truthy(v) THEN Ok(Null)
                      ELSE Ok(convertNumber(v, options.wrapNumbers))
      [] key = "B" -> toBuffer(v)
      [] key = "BOOL" -> Ok(Bool(BoolOutput(v)))
      [] key = "NULL" -> Ok(Null)

\* output with the last own key that is recognized deciding
outputLastKey(data, options) ==
    LET props == EnumProps(data)
        hits == {i \in 1..Len(props) : props[i].key \in RecognizedKeys}
    IN IF hits = {} THEN Ok(Undefined)
       ELSE LET i == CHOOSE i \in hits : \A j \in hits : i >= j
            IN outputKey(props[i].key, props[i].val, options)

\* Converter.output: the first own key that is recognized decides
output(data, options) ==
    LET props == EnumProps(data)
        hits == {i \in 1..Len(props) : props[i].key \in RecognizedKeys}
    IN IF hits = {} THEN Ok(Undefined)
       ELSE LET i == CHOOSE i \in hits : \A j \in hits : i <= j
            IN outputKey(props[i].key, props[i].val, options)

\* Converter.unmarshall: this.output({ M: data }, options)
unmarshall(data, options) == output(Attr("M", data), options)

\* ------------------------------------------------------------ the inputs
Options ==
    [convertEmptyValues : BOOLEAN, wrapNumbers : BOOLEAN, dateFormat : {"iso", "unix"}]

StringT == Str(<<"S", "t", "r", "i", "n", "g">>)
NumberT == Str(<<"N", "u", "m", "b", "e", "r">>)
BinaryT == Str(<<"B", "i", "n", "a", "r", "y">>)
SetT == Str(<<"S", "e", "t">>)

Strings == {Str(<<>>), Str(<<"a">>), Str(<<"b", "c">>)}

Numbers == {Int2Num(0), Int2Num(7), Int2Num(-3), StrToNum(<<"1", ".", "5">>)}

Binaries ==
    {Bin("Buffer", <<>>), Bin("Buffer", <<1, 2>>),
     Bin("Uint8Array", <<>>), Bin("Uint8Array", <<7>>),
     Bin("ArrayBuffer", <<>>), Bin("ArrayBuffer", <<1>>),
     Bin("Uint16Array", <<258>>)}

Dates == {DateOf(0), DateOf(90061001)}

Leaves ==
    Strings \cup Numbers \cup Binaries \cup Dates
            \cup {Bool(TRUE), Bool(FALSE), Null, Undefined, Func}

\* the values that appear side by side in arrays and objects of two
Few == {Str(<<>>), Str(<<"a">>), Int2Num(7), Null, Undefined, Bin("Buffer", <<>>)}

Pairs ==
    {Arr(<<>>), Obj("Object", <<>>)}
        \cup {Arr(<<x, y>>) : x \in Few, y \in Few}
        \cup {Obj("Object", <<Prop("a", x), Prop("b", y)>>) : x \in Few, y \in Few}

\* the lists a set is made of
SetLists ==
    {<<>>, <<Str(<<>>)>>, <<Str(<<"a">>), Str(<<"b">>)>>,
     <<Str(<<"a">>), Str(<<>>), Str(<<"b">>)>>,
     <<Int2Num(1), Int2Num(2)>>, <<Int2Num(0)>>,
     <<Bin("Buffer", <<>>)>>,
     <<Bin("Buffer", <<1>>), Bin("Uint8Array", <<>>), Bin("Buffer", <<2>>)>>,
     <<Bin("ArrayBuffer", <<>>), Bin("Buffer", <<1>>)>>}

\* objects that carry wrapperName 'Set' with a declared type and values,
\* and a native Set, which typeOf names 'Set' after its constructor
SetLike ==
    {Obj("Object", <<Prop("wrapperName", SetT), Prop("type", type),
                     Prop("values", Arr(list))>>) :
        type \in {StringT, NumberT, BinaryT, Str(<<"F", "o", "o">>), Undefined},
        list \in SetLists}
        \cup {Obj("Set", <<>>)}

\* an instance of a class of the caller, and an object without prototype
Others ==
    {Obj("Foo", <<Prop("a", Str(<<"a">>))>>), Obj("", <<Prop("a", Int2Num(7))>>),
     Obj("", <<>>)}

RECURSIVE Nested(_)
Nested(depth) ==
    IF depth = 0 THEN Leaves \cup Pairs \cup Others
    ELSE LET inner == Nested(depth - 1)
         IN inner \cup {Arr(<<c>>) : c \in inner}
                  \cup {Obj("Object", <<Prop("a", c)>>) : c \in inner}

\* values that carry a wrapperName: an object without prototype, a Blob,
\* and instances of a class of the caller whose wrapperName is empty or
\* names another type
Marked ==
    {Obj("", <<Prop("wrapperName", SetT)>>),
     Obj("Blob", <<Prop("wrapperName", SetT)>>),
     Obj("Foo", <<Prop("wrapperName", Str(<<>>))>>),
     Obj("Foo", <<Prop("wrapperName", NumberT)>>)}

NativeInputs ==
    Nested(MaxDepth) \cup SetLike \cup Marked
        \cup {Arr(<<c>>) : c \in SetLike} \cup {Arr(list) : list \in SetLists}

\* payloads as they arrive on the wire
NPayloads ==
    {Str(<<"7">>), Str(<<"0">>), Str(<<"0", "0", "7">>), Str(<<"1", ".", "5", "0">>),
     Str(<<"-", "3">>), Str(<<"a", "b">>), Str(<<>>), Undefined, Null, Int2Num(0)}

BoolPayloads ==
    {Bool(TRUE), Bool(FALSE), Str(<<"t", "r", "u", "e">>), Str(<<"T", "R", "U", "E">>),
     Str(<<"T", "r", "u", "e">>), Str(<<"f", "a", "l", "s", "e">>), Str(<<>>),
     Int2Num(1), Null, Undefined, Arr(<<Str(<<"t", "r", "u", "e">>)>>)}

LeafAttrs ==
    {Attr("N", v) : v \in NPayloads}
        \cup {Attr("BOOL", v) : v \in BoolPayloads}
        \cup {Attr("S", v) : v \in {Str(<<>>), Str(<<"a">>), Int2Num(7), Undefined}}
        \cup {Attr("B", v) : v \in Binaries \cup {Undefined, Str(<<"a", "b">>)}}
        \cup {Attr("NULL", v) : v \in {Bool(TRUE), Bool(FALSE)}}

SetAttrs ==
    {Attr("SS", v) : v \in {Arr(<<Str(<<"a">>), Str(<<"b">>)>>), Arr(<<Int2Num(1)>>),
                            Arr(<<>>), Undefined}}
        \cup {Attr("NS", v) : v \in {Arr(<<Str(<<"1">>), Str(<<"2">>)>>),
                                     Arr(<<Str(<<"0", "0", "7">>)>>), Arr(<<>>)}}
        \cup {Attr("BS", v) : v \in {Arr(<<Bin("Buffer", <<1>>)>>),
                                     Arr(<<Str(<<"a", "b">>)>>)}}

\* records with several keys, unknown keys or none
OddAttrs ==
    {Obj("Object", <<Prop("$unknown", Str(<<"a">>)), Prop("S", Str(<<"a">>))>>),
     Obj("Object", <<Prop("S", Str(<<"a">>)), Prop("N", Str(<<"7">>))>>),
     Obj("Object", <<Prop("N", Str(<<"7">>)), Prop("S", Str(<<"a">>))>>),
     Obj("Object", <<Prop("$unknown", Str(<<"a">>))>>),
     Attr("M", Undefined), Attr("L", Undefined)}

\* the properties records of several keys are made of: one for each kind
\* of recognized key, and two keys that are not recognized
KeyProps ==
    {Prop("S", Str(<<"a">>)), Prop("N", Str(<<"7">>)), Prop("BOOL", Bool(TRUE)),
     Prop("NULL", Bool(TRUE)), Prop("B", Bin("Buffer", <<1>>)),
     Prop("L", Arr(<<Attr("S", Str(<<"b">>))>>)),
     Prop("M", Obj("Object", <<Prop("a", Attr("N", Str(<<"1">>)))>>)),
     Prop("SS", Arr(<<Str(<<"a">>)>>)),
     Prop("$unknown", Str(<<"a">>)), Prop("s", Str(<<"c">>))}

\* records of two and of three own keys, in every order
MultiAttrs ==
    LET unknown == {x \in KeyProps : x.key \notin RecognizedKeys}
        short == {x \in KeyProps : x.key \in {"S", "N", "NULL"}}
    IN {Obj("Object", <<pq[1], pq[2]>>) :
            pq \in {x \in KeyProps \X KeyProps : x[1] # x[2]}}
        \cup {Obj("Object", <<pqr[1], pqr[2], pqr[3]>>) :
                  pqr \in {x \in unknown \X KeyProps \X short :
                               x[1] # x[2] /\ x[1] # x[3] /\ x[2] # x[3]}}

WireInputs ==
    LET flat == LeafAttrs \cup SetAttrs \cup OddAttrs
    IN flat \cup MultiAttrs \cup {Attr("M", Obj("Object", <<Prop("a", x)>>)) : x \in flat}
            \cup {Attr("L", Arr(<<x, y>>)) : x \in {Attr("S", Str(<<"a">>)), Attr("SS", Arr(<<>>))},
                                             y \in LeafAttrs}
            \cup {Obj("Object", <<Prop("a", x), Prop("b", y)>>) :
                      x \in {Attr("N", Str(<<"0", "0", "7">>))}, y \in LeafAttrs}

Inputs == NativeInputs \cup WireInputs

\* ------------------------------------------------------ the state machine
\* orig is the value the caller starts from and opts the options it passes
\* to every call; calls lists the calls made so far, each applied to the
\* value the one before returned; cur is the value last returned, status
\* and err tell whether the last call threw.
Init ==
    /\ orig \in Inputs
    /\ opts \in Options
    /\ calls = <<>>
    /\ cur = orig
    /\ status = "ok"
    /\ err = ""

Return(name, r) ==
    /\ calls' = Append(calls, name)
    /\ cur' = r.val
    /\ status' = IF r.ok THEN "ok" ELSE "throw"
    /\ err' = r.err
    /\ UNCHANGED <<orig, opts>>

CanCall == status = "ok" /\ Len(calls) < MaxCalls

ConverterInput ==
    /\ CanCall
    /\ Return("input", input(cur, opts))

ConverterMarshall ==
    /\ CanCall
    /\ cur.t = "Object"
    /\ Return("marshall", marshall(cur, opts))

ConverterOutput ==
    /\ CanCall
    /\ cur.t \in {"Object", "undefined"}
    /\ Return("output", output(cur, opts))

ConverterUnmarshall ==
    /\ CanCall
    /\ cur.t \in {"Object", "undefined"}
    /\ Return("unmarshall", unmarshall(cur, opts))

\* the strings typeOf returns
TypeNames ==
    {<<"D", "a", "t", "e">>, <<"n", "u", "l", "l">>,
     <<"u", "n", "d", "e", "f", "i", "n", "e", "d">>,
     <<"B", "i", "n", "a", "r", "y">>, <<"O", "b", "j", "e", "c", "t">>,
     <<"A", "r", "r", "a", "y">>, <<"S", "t", "r", "i", "n", "g">>,
     <<"N", "u", "m", "b", "e", "r">>, <<"B", "o", "o", "l", "e", "a", "n">>,
     <<"F", "u", "n", "c", "t", "i", "o", "n">>, <<"S", "e", "t">>,
     <<"N", "u", "m", "b", "e", "r", "V", "a", "l", "u", "e">>,
     <<"F", "o", "o">>}

\* the string value that reads name
Spell(name) == Str(CHOOSE s \in TypeNames : Text(s) = name)

\* the value typeOf returns: data.wrapperName itself, whatever it is, where
\* that names the type, and else the name as a string
Returned(data) ==
    LET name == typeOf(data)
    IN IF Truthy(WrapperName(data)) /\ name = Text(ToStr(WrapperName(data)))
       THEN WrapperName(data)
       ELSE Spell(name)

TypeOf ==
    /\ CanCall
    /\ Return("typeOf", Ok(Returned(cur)))

ConstructSet ==
    /\ CanCall
    /\ cur.t = "Array"
    /\ Return("new DynamoDBSet", NewDynamoDBSet(cur.items))

Next ==
    \/ ConverterInput
    \/ ConverterMarshall
    \/ ConverterOutput
    \/ ConverterUnmarshall
    \/ TypeOf
    \/ ConstructSet

Spec == Init /\ [][Next]_vars

TypeOK ==
    /\ status \in {"ok", "throw"}
    /\ Len(calls) <= MaxCalls
    /\ status = "throw" => cur = Undefined

\* ============================================================== claims
\* a record of one key
IsAttr(v, key) == v.t = "Object" /\ Len(v.props) = 1 /\ v.props[1].key = key

\* ---------------------------------------------------------------- C1
\* the values a record of C1 is built from: strings, finite numbers,
\* booleans, null, binary payloads, dates, and plain objects and arrays of
\* these
RECURSIVE IsRecordValue(_)
IsRecordValue(v) ==
    CASE v.t \in {"String", "Boolean", "null", "Binary", "Date"} -> TRUE
      [] v.t = "Number" -> ~v.nan
      [] v.t = "Array" -> \A i \in 1..Len(v.items) : IsRecordValue(v.items[i])
      [] v.t = "Object" ->
            /\ v.cls = "Object"
            /\ ~HasOwn(v, "wrapperName")
            /\ \A i \in 1..Len(v.props) : IsRecordValue(v.props[i].val)
      [] OTHER -> FALSE

\* every binary payload in v is a Buffer or a Uint8Array
RECURSIVE HeldAsBytes(_)
HeldAsBytes(v) ==
    CASE v.t = "Binary" -> v.kind \in {"Buffer", "Uint8Array"}
      [] v.t = "Array" -> \A i \in 1..Len(v.items) : HeldAsBytes(v.items[i])
      [] v.t = "Object" -> \A i \in 1..Len(v.props) : HeldAsBytes(v.props[i].val)
      [] OTHER -> TRUE

\* v with every date replaced by its ISO-8601 string
RECURSIVE DatesAsIso(_)
DatesAsIso(v) ==
    CASE v.t = "Date" -> Str(toISOString(v))
      [] v.t = "Array" -> Arr([i \in 1..Len(v.items) |-> DatesAsIso(v.items[i])])
      [] v.t = "Object" ->
            Obj(v.cls, [i \in 1..Len(v.props) |->
                           Prop(v.props[i].key, DatesAsIso(v.props[i].val))])
      [] OTHER -> v

RoundTripped ==
    /\ calls = <<"marshall", "unmarshall">>
    /\ opts = NoOptions
    /\ orig.t = "Object"
    /\ IsRecordValue(orig)

IsMapLike(v) ==
    /\ v.t = "Object"
    /\ typeOf(v) \notin {"Date", "Array", "Set", "String", "Number", "NumberValue",
                         "Binary", "Boolean", "null", "undefined", "Function"}

\* the classified types of the undefined and Function values that are v
\* itself (when counted) or an element of an array inside v
RECURSIVE Offending(_, _)
Offending(v, counted) ==
    (IF counted /\ typeOf(v) \in {"undefined", "Function"} THEN {typeOf(v)} ELSE {})
        \cup (IF v.t = "Array"
              THEN UNION {Offending(v.items[i], TRUE) : i \in 1..Len(v.items)}
              ELSE IF IsMapLike(v)
              THEN UNION {Offending(v.props[i].val, FALSE) : i \in 1..Len(v.props)}
              ELSE {})

\* C2: input of a value that is classified undefined or Function, or that
\* holds such a value as an element of an array at any depth, throws the
\* error that names a refused type (the type of the input itself when the
\* input is refused) and returns nothing.
C2_Unconvertible ==
    (calls = <<"input">> /\ Offending(orig, TRUE) # {}) =>
        /\ status = "throw"
        /\ cur = Undefined
        /\ typeOf(orig) \in {"undefined", "Function"} => err = UnconvertibleMsg(typeOf(orig))
        /\ err \in {UnconvertibleMsg(type) : type \in Offending(orig, TRUE)}

C2_Witness ==
    /\ calls = <<"input">>
    /\ orig = Arr(<<Arr(<<Func>>)>>)
    /\ status = "throw"
    /\ err = UnconvertibleMsg("Function")

\* ---------------------------------------------------------------- C3
\* the properties of props whose value is not undefined
DefinedProps(props) == SelectSeq(props, LAMBDA p : p.val # Undefined)

\* C3: input of an Object with an own property that is undefined succeeds
\* and returns the M of its other properties, each with its marshalled
\* value, without the key of the undefined one.
C3_SparseObject ==
    (/\ calls = <<"input">>
     /\ typeOf(orig) = "Object"
     /\ orig.t = "Object"
     /\ \E i \in 1..Len(orig.props) : orig.props[i].val = Undefined
     /\ \A i \in 1..Len(orig.props) :
           orig.props[i].val # Undefined => input(orig.props[i].val, opts).ok) =>
        /\ status = "ok"
        /\ cur = Attr("M", Obj("Object",
                     [i \in 1..Len(DefinedProps(orig.props)) |->
                         Prop(DefinedProps(orig.props)[i].key,
                              input(DefinedProps(orig.props)[i].val, opts).val)]))

\* ---------------------------------------------------------------- C4
AllOf(items, type) == \A i \in 1..Len(items) : items[i].t = type

\* C4: a DynamoDBSet made of a non-empty list of strings marshals to SS
\* of the same strings, one of numbers to NS of each number as a string,
\* one of binary payloads to BS of the same payloads.
C4_SetEncoding ==
    (/\ calls = <<"new DynamoDBSet">>
     /\ orig.t = "Array"
     /\ orig.items # <<>>
     /\ \E type \in {"String", "Number", "Binary"} : AllOf(orig.items, type)) =>
        /\ status = "ok"
        /\ input(cur, NoOptions) =
              Ok(CASE AllOf(orig.items, "String") -> Attr("SS", orig)
                   [] AllOf(orig.items, "Number") ->
                         Attr("NS", Arr([i \in 1..Len(orig.items) |->
                                            Str(NumToStr(orig.items[i]))]))
                   [] OTHER -> Attr("BS", orig))

\* ---------------------------------------------------------------- C5
\* C5: output of SS, NS or BS over a non-empty list returns, without
\* error, a set of declared type String, Number or Binary whose values are
\* the elements as strings, as numbers, or as they are, in the same order.
C5_SetDecoding ==
    (/\ calls = <<"output">>
     /\ \E key \in {"SS", "NS", "BS"} : IsAttr(orig, key)
     /\ orig.props[1].val.t = "Array"
     /\ orig.props[1].val.items # <<>>) =>
        LET xs == orig.props[1].val.items
        IN /\ status = "ok"
           /\ typeOf(cur) = "Set"
           /\ Get(cur, "type") = (CASE IsAttr(orig, "SS") -> StringT
                                    [] IsAttr(orig, "NS") -> NumberT
                                    [] OTHER -> BinaryT)
           /\ Len(Get(cur, "values").items) = Len(xs)
           /\ IsAttr(orig, "SS") =>
                 Get(cur, "values") = Arr([i \in 1..Len(xs) |-> Str(ToStr(xs[i]))])
           /\ IsAttr(orig, "NS") =>
                 Get(cur, "values") =
                     Arr([i \in 1..Len(xs) |-> convertNumber(xs[i], opts.wrapNumbers)])

\* ---------------------------------------------------------------- C6
\* a Tagged Attribute: one key, recognized and populated, and the same for
\* every attribute inside an M or an L
RECURSIVE WellFormed(_)
WellFormed(a) ==
    /\ a.t = "Object"
    /\ Len(a.props) = 1
    /\ a.props[1].key \in RecognizedKeys
    /\ a.props[1].val # Undefined
    /\ a.props[1].key = "M" =>
          /\ a.props[1].val.t = "Object"
          /\ \A i \in 1..Len(a.props[1].val.props) :
                WellFormed(a.props[1].val.props[i].val)
    /\ a.props[1].key = "L" =>
          /\ a.props[1].val.t = "Array"
          /\ \A i \in 1..Len(a.props[1].val.items) : WellFormed(a.props[1].val.items[i])

\* C6: whatever the value and the options, input throws or returns a
\* Tagged Attribute with exactly one populated key, nested attributes
\* included, also for a value classified as Set of any declared type.
C6_WellFormed ==
    (calls = <<"input">> /\ status = "ok") => WellFormed(cur)

\* ---------------------------------------------------------------- C7
NullAttr == Attr("NULL", Bool(TRUE))

\* the empty string or a binary payload of no bytes
IsEmptyLeaf(v) == v = Str(<<>>) \/ (v.t = "Binary" /\ v.elems = <<>>)

\* attribute a of value v has, at every empty leaf of v, the encoding the
\* flag asks for: NULL with the flag, S or B of the leaf without it
RECURSIVE EmptiesEncoded(_, _, _)
EmptiesEncoded(v, a, flag) ==
    IF IsEmptyLeaf(v)
    THEN a = (IF flag THEN NullAttr
              ELSE IF v.t = "String" THEN Attr("S", v) ELSE Attr("B", v))
    ELSE IF v.t = "Array" /\ IsAttr(a, "L")
    THEN \A i \in 1..Len(v.items) :
            EmptiesEncoded(v.items[i], a.props[1].val.items[i], flag)
    ELSE IF IsMapLike(v) /\ IsAttr(a, "M")
    THEN \A i \in 1..Len(v.props) :
            EmptiesEncoded(v.props[i].val, a.props[1].val.props[i].val, flag)
    ELSE TRUE

\* no S of the empty string and no B without bytes anywhere in a
RECURSIVE NoEmptyLeaf(_)
NoEmptyLeaf(a) ==
    \/ a.t # "Object"
    \/ \A i \in 1..Len(a.props) :
          LET key == a.props[i].key
              v == a.props[i].val
          IN /\ key = "S" => v # Str(<<>>)
             /\ key = "B" => ~(v.t = "Binary" /\ v.elems = <<>>)
             /\ (key = "M" /\ v.t = "Object") =>
                   \A j \in 1..Len(v.props) : NoEmptyLeaf(v.props[j].val)
             /\ (key = "L" /\ v.t = "Array") =>
                   \A j \in 1..Len(v.items) : NoEmptyLeaf(v.items[j])

\* C7: with convertEmptyValues, an empty string or a binary payload of no
\* bytes marshals to {NULL: true} at every depth and the output holds no
\* {S: ''} and no empty B; without it they marshal to {S: ''} and {B: <empty>}.
C7_EmptyValues ==
    (calls = <<"input">> /\ status = "ok") =>
        /\ EmptiesEncoded(orig, cur, opts.convertEmptyValues)
        /\ opts.convertEmptyValues => NoEmptyLeaf(cur)

\* ---------------------------------------------------------------- C8
IsSetOf(v, type) ==
    /\ typeOf(v) = "Set"
    /\ Get(v, "type") = type
    /\ Get(v, "values").t = "Array"

\* an element whose length is 0
HasLengthZero(x) ==
    \/ x.t = "String" /\ x.s = <<>>
    \/ x.t = "Binary" /\ x.kind \in LengthTypes /\ x.elems = <<>>

Kept(items) == SelectSeq(items, LAMBDA x : ~HasLengthZero(x))

Stringified(items) == [i \in 1..Len(items) |-> Str(ToStr(items[i]))]

\* what C8 says of a String or Binary set under convertEmptyValues
FilteredEncoding(key) ==
    /\ status = "ok"
    /\ cur = IF Kept(Get(orig, "values").items) = <<>> THEN NullAttr
             ELSE Attr(key, Arr(Kept(Get(orig, "values").items)))

C9_BoolAnyCase ==
    (calls = <<"output">> /\ IsAttr(orig, "BOOL")) =>
        LET v == orig.props[1].val
        IN /\ status = "ok"
           /\ cur = Bool(v = Bool(TRUE)
                         \/ (v.t = "String" /\ toLowerCase(v.s) = <<"t", "r", "u", "e">>))

\* C9 amended: output of {BOOL: v} is true exactly when v is the boolean
\* true or the text of v is 'true' or 'TRUE'; a string in any other case,
\* such as 'True', gives false.
C9_BoolExact ==
    (calls = <<"output">> /\ IsAttr(orig, "BOOL")) =>
        LET v == orig.props[1].val
            spelled(s) == s \in {<<"t", "r", "u", "e">>, <<"T", "R", "U", "E">>}
        IN /\ status = "ok"
           /\ v.t = "Boolean" => cur = v
           /\ v.t = "String" => cur = Bool(spelled(v.s))
           /\ v.t = "Array" => cur = Bool(spelled(Join(v.items)))
           /\ v.t \in {"null", "undefined", "Number"} => cur = Bool(FALSE)

C9_Witness ==
    /\ calls = <<"output">>
    /\ orig = Attr("BOOL", Str(<<"T", "r", "u", "e">>))
    /\ cur = Bool(FALSE)

\* --------------------------------------------------------------- C10
WrappedN ==
    /\ IsAttr(orig, "N")
    /\ opts.wrapNumbers
    /\ orig.props[1].val.t = "String"
    /\ orig.props[1].val.s # <<>>

\* C10: with wrapNumbers, output of {N: s} for a non-empty string s is a
\* NumberValue whose toString is s, and input of that wrapper is {N: s}
\* again; output of an N that is empty or falsy is null.
C10_NumericString ==
    /\ (calls = <<"output">> /\ WrappedN) =>
          /\ status = "ok"
          /\ typeOf(cur) = "NumberValue"
          /\ ToStringCall(cur) = orig.props[1].val
    /\ (calls = <<"output", "input">> /\ WrappedN) =>
          /\ status = "ok"
          /\ cur = orig
    /\ (calls = <<"output">> /\ IsAttr(orig, "N") /\ ~Truthy(orig.props[1].val)) =>
          /\ status = "ok"
          /\ cur = Null

C10_Witness ==
    /\ calls = <<"output", "input">>
    /\ opts.wrapNumbers
    /\ orig = Attr("N", Str(<<"0", "0", "7">>))
    /\ cur = orig

\* ---- C11
\* a recognized binary representation: a Buffer, a binary object, or any
\* value whose constructor bears one of the binary names
RecognizedBinary(v) ==
    \/ v.t = "Binary"
    \/ v.t = "Object" /\ v.cls \in BinaryTypes

\* the value declares a type name of its own
ExposesWrapperName(v) ==
    HasOwn(v, "wrapperName") /\ Truthy(OwnProp(v, "wrapperName"))

HasConstructor(v) == Constructor(v) # ""

\* the classification by the rules in their order; bare tells whether a
\* declared name counts on a value without constructor
Classified(v, bare) ==
    IF v.t = "Date" THEN Spell("Date")
    ELSE IF v.t = "null" THEN Spell("null")
    ELSE IF v.t = "undefined" THEN Spell("undefined")
    ELSE IF RecognizedBinary(v) THEN Spell("Binary")
    ELSE IF ExposesWrapperName(v) /\ (bare \/ HasConstructor(v))
         THEN OwnProp(v, "wrapperName")
    ELSE IF HasConstructor(v) THEN Spell(Constructor(v))
    ELSE IF v.t = "Object" THEN Spell("Object")
    ELSE Spell("undefined")

\* C11 as stated: typeOf classifies by: Date, null, undefined, Binary (even
\* with a wrapperName), then the declared wrapperName whether or not the
\* value has a constructor, then the constructor's name, then Object for an
\* object without constructor, else undefined.
C11_WrapperNameAlways ==
    calls = <<"typeOf">> => status = "ok" /\ cur = Classified(orig, TRUE)

\* C11: typeOf classifies by: Date, null, undefined, Binary (even with a
\* wrapperName), then, for a value that has a constructor, its truthy
\* wrapperName and else the constructor's name, then Object for an object
\* without constructor, whether or not it carries a wrapperName, else
\* undefined.
C11_Precedence ==
    calls = <<"typeOf">> => status = "ok" /\ cur = Classified(orig, FALSE)

\* an object without prototype that declares itself a Set is an Object
C11_Witness ==
    /\ calls = <<"typeOf">>
    /\ orig = Obj("", <<Prop("wrapperName", SetT)>>)
    /\ cur = Spell("Object")

\* ---- C12
Recognized(p) == p.key \in RecognizedKeys

\* the last call ended as r says
EndedAs(r) ==
    /\ status = (IF r.ok THEN "ok" ELSE "throw")
    /\ cur = r.val
    /\ err = r.err

\* C12: output of a record of several own keys ends as the conversion of
\* its first recognized key alone, whatever keys that are not recognized
\* come before it and whatever keys come after it; with no recognized own
\* key it returns undefined and throws nothing.
C12_FirstRecognizedKey ==
    calls = <<"output">> /\ orig.t = "Object" =>
        LET props == orig.props
        IN IF \E i \in 1..Len(props) : Recognized(props[i])
           THEN \E i \in 1..Len(props) :
                   /\ Recognized(props[i])
                   /\ \A j \in 1..(i - 1) : ~Recognized(props[j])
                   /\ EndedAs(output(Obj("Object", <<props[i]>>), opts))
           ELSE status = "ok" /\ cur = Undefined

\* {$unknown: 'a', N: '7', S: 'a'} gives the number 7
C12_Witness ==
    /\ calls = <<"output">>
    /\ ~opts.wrapNumbers
    /\ orig = Obj("Object", <<Prop("$unknown", Str(<<"a">>)), Prop("N", Str(<<"7">>)),
                              Prop("S", Str(<<"a">>))>>)
    /\ status = "ok"
    /\ cur = Int2Num(7)

====
